---------------------------- MODULE Spec2Model ----------------------------
(***************************************************************************)
(* Reconciliation of PayTm and Razorpay settlement rows against Shopify    *)
(* orders (data_processor.py) and the Streamlit session that drives it     *)
(* (app.py).                                                               *)
(*                                                                         *)
(* A data frame is a sequence of rows (records).  A numeric cell is a      *)
(* record [nan, v]: pandas' NaN is [nan |-> TRUE], which equals nothing.   *)
(* An optional cell (Order ID, Party Information) is a sequence: <<>> is   *)
(* None and <<x>> is the value x.  A timestamp is [nat, day, tod]: calendar *)
(* day and time of day, or pandas' NaT, which equals nothing.  The         *)
(* settlement date column is kept as the file gives it and ordered as its  *)
(* values are ordered.                                                     *)
(***************************************************************************)
EXTENDS Integers, Sequences, FiniteSets, TLC

VARIABLES
    paytm_file,          \* the uploaded PayTm CSV
    razorpay_file,       \* the uploaded Razorpay CSV
    shopify_files,       \* the uploaded Shopify CSVs
    paytm_df,            \* main: paytm_df, then processed_paytm_df
    razorpay_df,         \* main: razorpay_df, then processed_razorpay_df
    shopify_df,          \* main: shopify_df, the order pool
    paytm_used_names,    \* match_orders: local claim set
    razorpay_used_names, \* match_orders: local claim set
    unused_shopify_df,   \* match_orders: the residual pool
    final_df,            \* combine_and_format_data: the ledger
    pc,                  \* position in the try block of main
    run,                 \* number of the processing run under way
    first_out,           \* outputs of the first processing run
    session_state,       \* st.session_state
    shown,               \* what the last script run displayed
    last_run             \* the most recent processing run and its outcome

vars == <<paytm_file, razorpay_file, shopify_files, paytm_df, razorpay_df,
          shopify_df, paytm_used_names, razorpay_used_names,
          unused_shopify_df, final_df, pc, run, first_out, session_state,
          shown, last_run>>

pipeVars == <<paytm_file, razorpay_file, shopify_files, paytm_df, razorpay_df,
              shopify_df, paytm_used_names, razorpay_used_names,
              unused_shopify_df, final_df, pc, run, first_out>>

appVars == <<session_state, shown, last_run>>

-----------------------------------------------------------------------------
(* Bounds of the model. *)

\* rows of the PayTm file and the Razorpay file together
MaxTxns == 2

\* rows of the Shopify export
MaxPool == 2

\* processing runs of one session
MaxRuns == 3

-----------------------------------------------------------------------------
(* Cells. *)

None == <<>>

Some(x) == <<x>>

NaN == [nan |-> TRUE, v |-> 0]

Num(n) == [nan |-> FALSE, v |-> n]

\* a CSV cell that does not parse as a number
Text == [text |-> TRUE, v |-> 0]

Cell(n) == [text |-> FALSE, v |-> n]

to_numeric(c) == IF c.text THEN NaN ELSE Num(c.v)

NumEq(a, b) == ~a.nan /\ ~b.nan /\ a.v = b.v

NumAdd(a, b) == IF a.nan \/ b.nan THEN NaN ELSE Num(a.v + b.v)

NumSub(a, b) == IF a.nan \/ b.nan THEN NaN ELSE Num(a.v - b.v)

IsZero(a) == ~a.nan /\ a.v = 0

NaT == [nat |-> TRUE, day |-> 0, tod |-> 0]

Stamp(d, t) == [nat |-> FALSE, day |-> d, tod |-> t]

\* a CSV cell that does not parse as a date
BadDate == [text |-> TRUE, day |-> 0, tod |-> 0]

DateCell(d, t) == [text |-> FALSE, day |-> d, tod |-> t]

\* pd.to_datetime(..., errors="coerce")
to_datetime(c) == IF c.text THEN NaT ELSE Stamp(c.day, c.tod)

\* Timestamp.date(): the time of day is dropped; NaT.date() is NaT
date(ts) == [nat |-> ts.nat, day |-> ts.day]

DateEq(a, b) == ~a.nat /\ ~b.nat /\ a.day = b.day

-----------------------------------------------------------------------------
(* Files. *)

NoFile == [present |-> FALSE, columns |-> FALSE, rows |-> <<>>]

CsvFile(rows) == [present |-> TRUE, columns |-> TRUE, rows |-> rows]

\* a CSV that lacks a column the normalizer selects
BadCsv == [present |-> TRUE, columns |-> FALSE, rows |-> <<>>]

\* pd.read_csv(None) raises; selecting a missing column raises
ReadFails(file) == ~file.present \/ ~file.columns

\* pd.to_datetime with format= and no errors="coerce" raises on a bad cell
PaytmFails(file) ==
    \/ ReadFails(file)
    \/ \E i \in 1..Len(file.rows) : file.rows[i].transaction_date.text

-----------------------------------------------------------------------------
(* process_paytm_data *)

PaytmType(label) ==
    CASE label = "ACQUIRING" -> "payment"
      [] label = "REFUND" -> "refund"
      [] OTHER -> label

\* the refund test left out
DebitOfAnyType(type, amt, fee) == NumSub(amt, fee)

DebitOf(type, amt, fee) == IF type = "refund" THEN NumSub(amt, fee) ELSE Num(0)

CreditOf(type, amt, fee) == IF type = "payment" THEN NumSub(amt, fee) ELSE Num(0)

TxnRow(tdate, settled, platform, type, amt, fee) ==
    [TDate |-> tdate, Date |-> settled, Platform |-> platform, Type |-> type,
     OrderAmt |-> amt, Fee |-> fee,
     Debit |-> DebitOf(type, amt, fee), Credit |-> CreditOf(type, amt, fee),
     OrderID |-> None, Party1 |-> None, Party2 |-> None, Party3 |-> None]

PaytmRow(r) ==
    TxnRow(to_datetime(r.transaction_date), r.settled_date, "PayTm",
           PaytmType(r.transaction_type), to_numeric(r.amount),
           NumAdd(to_numeric(r.commission), to_numeric(r.gst)))

process_paytm_data(file) == [i \in 1..Len(file.rows) |-> PaytmRow(file.rows[i])]

(* process_razorpay_data *)

RazorpayRow(r) ==
    TxnRow(to_datetime(r.payment_captured_at), r.settled_at, "Razorpay",
           r.transaction_entity, to_numeric(r.amount),
           NumAdd(to_numeric(r.fee_exclusive_tax), to_numeric(r.tax)))

process_razorpay_data(file) ==
    [i \in 1..Len(file.rows) |-> RazorpayRow(file.rows[i])]

-----------------------------------------------------------------------------
(* process_shopify_data *)

\* "orders_export" in file.name.lower()
IsOrdersExport(name) == name \in {"orders_export_1.csv", "Orders_Export_2.csv"}

\* temp_df["Paid at"] = pd.to_datetime(temp_df["Paid at"], errors="coerce")
ShopifyRow(r) == [r EXCEPT !.PaidAt = to_datetime(r.PaidAt)]

RECURSIVE ConcatFiles(_)
ConcatFiles(files) ==
    IF files = <<>> THEN <<>>
    ELSE LET f == Head(files)
             kept == IF IsOrdersExport(f.name) /\ f.has_total
                     THEN SelectSeq([i \in 1..Len(f.rows) |-> ShopifyRow(f.rows[i])],
                                    LAMBDA r : ~r.Total.nan)
                     ELSE <<>>
         IN  kept \o ConcatFiles(Tail(files))

\* one pass of insertion: s is sorted by Name, r goes after the rows not above it
InsertByName(s, r) ==
    LET k == Cardinality({i \in 1..Len(s) : s[i].Name <= r.Name})
    IN  SubSeq(s, 1, k) \o <<r>> \o SubSeq(s, k + 1, Len(s))

RECURSIVE SortByName(_)
SortByName(s) ==
    IF s = <<>> THEN <<>>
    ELSE InsertByName(SortByName(SubSeq(s, 1, Len(s) - 1)), s[Len(s)])

\* sort_values("Name") of the frame no file contributed to raises KeyError
ShopifyFails(files) ==
    \A i \in 1..Len(files) : ~(IsOrdersExport(files[i].name) /\ files[i].has_total)

\* the sort left out
sort_values_NameUnsorted(s) == s

sort_values_Name(s) == SortByName(s)

process_shopify_data(files) == sort_values_Name(ConcatFiles(files))

-----------------------------------------------------------------------------
(* match_orders *)

\* the date test left out
CandidatesByAmount(pool, row) ==
    SelectSeq(pool, LAMBDA c : NumEq(c.Total, row.OrderAmt))

\* the rows of the pool with the row's amount and calendar date, in pool order
Candidates(pool, row) ==
    SelectSeq(pool, LAMBDA c : NumEq(c.Total, row.OrderAmt)
                               /\ DateEq(date(c.PaidAt), date(row.TDate)))

\* the for loop over matching_row: the first row whose Name is not used, or 0
FirstUnused(cands, used) ==
    LET free == {i \in 1..Len(cands) : cands[i].Name \notin used}
    IN  IF free = {} THEN 0 ELSE CHOOSE i \in free : \A j \in free : i <= j

Annotate(row, c) ==
    [row EXCEPT !.OrderID = Some(c.Name),
                !.Party1 = Some(c.BillingName),
                !.Party2 = Some(c.BillingStreet),
                !.Party3 = Some(c.BillingCompany)]

\* match_order_id_and_party_info: the row it returns and the two claim sets
match_order_id_and_party_info(row, pu, ru, pool) ==
    LET cands == Candidates(pool, row)
    IN  IF row.Type = "payment" /\ row.OrderID = None
        THEN LET k == FirstUnused(cands, pu)
             IN  IF k = 0
                 THEN [row |-> row, pu |-> pu, ru |-> ru]
                 ELSE [row |-> Annotate(row, cands[k]),
                       pu |-> pu \cup {cands[k].Name}, ru |-> ru]
        ELSE IF row.Type = "refund" /\ row.OrderID = None
        THEN LET k == FirstUnused(cands, ru)
             IN  IF k = 0
                 THEN [row |-> row, pu |-> pu, ru |-> ru]
                 ELSE [row |-> Annotate(row, cands[k]),
                       pu |-> pu, ru |-> ru \cup {cands[k].Name}]
        ELSE [row |-> row, pu |-> pu, ru |-> ru]

\* df.apply(match_order_id_and_party_info, axis=1): the rows in order
RECURSIVE ApplyRows(_, _, _, _)
ApplyRows(df, pu, ru, pool) ==
    IF df = <<>> THEN [df |-> <<>>, pu |-> pu, ru |-> ru]
    ELSE LET m == match_order_id_and_party_info(Head(df), pu, ru, pool)
             rest == ApplyRows(Tail(df), m.pu, m.ru, pool)
         IN  [df |-> <<m.row>> \o rest.df, pu |-> rest.pu, ru |-> rest.ru]

\* only the first claim set consulted
UnusedEntriesPaytmOnly(pool, pu, ru) == SelectSeq(pool, LAMBDA c : c.Name \notin pu)

\* the Shopify rows whose Name is in neither claim set
UnusedEntries(pool, pu, ru) ==
    SelectSeq(pool, LAMBDA c : c.Name \notin pu /\ c.Name \notin ru)

\* the whole call: fresh claim sets, PayTm rows, Razorpay rows, the residual
match_orders(p_df, r_df, pool) ==
    LET p == ApplyRows(p_df, {}, {}, pool)
        r == ApplyRows(r_df, p.pu, p.ru, pool)
    IN  [paytm_df |-> p.df, razorpay_df |-> r.df,
         unused_shopify_df |-> UnusedEntries(pool, r.pu, r.ru)]

-----------------------------------------------------------------------------
(* combine_and_format_data *)

\* Python's order of the strings the Platform and Type columns hold
StrOrder == <<"CHARGEBACK", "PayTm", "Razorpay", "adjustment", "payment", "refund">>

StrRank(s) == CHOOSE i \in 1..Len(StrOrder) : StrOrder[i] = s

\* sort_values puts None after every value (na_position = "last")
OrderIDLess(a, b) == a # None /\ (b = None \/ a[1] < b[1])

\* "Order ID" left out of the sort keys
KeyLessNoOrderID(a, b) ==
    \/ a.Date < b.Date
    \/ /\ a.Date = b.Date
       /\ \/ StrRank(a.Platform) < StrRank(b.Platform)
          \/ /\ a.Platform = b.Platform
             /\ StrRank(a.Type) < StrRank(b.Type)

\* by = ["Date", "Platform", "Type", "Order ID"], ascending
KeyLess(a, b) ==
    \/ a.Date < b.Date
    \/ /\ a.Date = b.Date
       /\ \/ StrRank(a.Platform) < StrRank(b.Platform)
          \/ /\ a.Platform = b.Platform
             /\ \/ StrRank(a.Type) < StrRank(b.Type)
                \/ /\ a.Type = b.Type
                   /\ OrderIDLess(a.OrderID, b.OrderID)

\* s is sorted; r goes after the rows whose key is not above its own (stable)
InsertByKey(s, r) ==
    LET k == Cardinality({i \in 1..Len(s) : ~KeyLess(r, s[i])})
    IN  SubSeq(s, 1, k) \o <<r>> \o SubSeq(s, k + 1, Len(s))

RECURSIVE SortByKey(_)
SortByKey(s) ==
    IF s = <<>> THEN <<>>
    ELSE InsertByKey(SortByKey(SubSeq(s, 1, Len(s) - 1)), s[Len(s)])

\* numbered from 0
LedgerRowFromZero(n, r) ==
    [SrNo |-> n - 1, Date |-> r.Date, Platform |-> r.Platform, Type |-> r.Type,
     OrderAmt |-> r.OrderAmt, Fee |-> r.Fee, Debit |-> r.Debit,
     Credit |-> r.Credit, OrderID |-> r.OrderID, Party1 |-> r.Party1,
     Party2 |-> r.Party2, Party3 |-> r.Party3]

LedgerRow(n, r) ==
    [SrNo |-> n, Date |-> r.Date, Platform |-> r.Platform, Type |-> r.Type,
     OrderAmt |-> r.OrderAmt, Fee |-> r.Fee, Debit |-> r.Debit,
     Credit |-> r.Credit, OrderID |-> r.OrderID, Party1 |-> r.Party1,
     Party2 |-> r.Party2, Party3 |-> r.Party3]

combine_and_format_data(p_df, r_df) ==
    LET sorted == SortByKey(p_df \o r_df)
    IN  [i \in 1..Len(sorted) |-> LedgerRow(i, sorted[i])]

-----------------------------------------------------------------------------
(* The inputs the specifications draw from. *)

SeqsUpTo(S, n) == UNION {[1..k -> S] : k \in 0..n}

PaytmRaw(labels, amounts, commissions, settles) ==
    {[transaction_date |-> DateCell(1, 1), settled_date |-> s,
      transaction_type |-> l, amount |-> a, commission |-> c, gst |-> Cell(1)] :
        l \in labels, a \in amounts, c \in commissions, s \in settles}

RazorpayRaw(labels, amounts, commissions, settles, dates) ==
    {[payment_captured_at |-> d, settled_at |-> s,
      transaction_entity |-> l, amount |-> a, fee_exclusive_tax |-> c,
      tax |-> Cell(1)] :
        l \in labels, a \in amounts, c \in commissions, s \in settles,
        d \in dates}

\* a PayTm file and a Razorpay file of at most MaxTxns rows together
TxnFiles(P, R) ==
    {f \in SeqsUpTo(P, MaxTxns) \X SeqsUpTo(R, MaxTxns) :
        Len(f[1]) + Len(f[2]) <= MaxTxns}

\* order n of the export: its buyer fields are its own
Order(n, total, paid) ==
    [Name |-> n, Total |-> total, BillingName |-> <<"name", n>>,
     BillingStreet |-> <<"street", n>>, BillingCompany |-> <<"company", n>>,
     PaidAt |-> paid]

\* exports of at most MaxPool orders, each Name once, in any row order
Exports(totals, days) ==
    {s \in SeqsUpTo({Order(n, t, DateCell(d, 3)) :
                         n \in 1..MaxPool, t \in totals, d \in days},
                    MaxPool) :
        \A i, j \in 1..Len(s) : i # j => s[i].Name # s[j].Name}

OrdersFile(rows) == [name |-> "orders_export_1.csv", has_total |-> TRUE, rows |-> rows]

InitPipe(files, exports) ==
    /\ \E f \in files :
          /\ paytm_file = CsvFile(f[1])
          /\ razorpay_file = CsvFile(f[2])
    /\ \E e \in exports : shopify_files = <<OrdersFile(e)>>
    /\ paytm_df = <<>>
    /\ razorpay_df = <<>>
    /\ shopify_df = <<>>
    /\ paytm_used_names = {}
    /\ razorpay_used_names = {}
    /\ unused_shopify_df = <<>>
    /\ final_df = <<>>
    /\ pc = "process"
    /\ run = 1
    /\ first_out = None
    /\ session_state = [processed_data |-> None, unused_data |-> None,
                        files_processed |-> FALSE]
    /\ shown = [error |-> FALSE, results |-> None]
    /\ last_run = [n |-> 0, ok |-> FALSE, out |-> None]

\* matching: every label, two amounts, orders of either amount paid on the
\* transactions' day and on another
Init ==
    InitPipe(TxnFiles(PaytmRaw({"ACQUIRING", "REFUND", "CHARGEBACK"},
                               {Cell(1), Cell(2)}, {Cell(0)}, {1}),
                      RazorpayRaw({"payment", "refund", "adjustment"},
                                  {Cell(1), Cell(2)}, {Cell(0)}, {1},
                                  {DateCell(1, 2)})),
             Exports({Num(1), Num(2)}, {1, 2}))

\* the ledger: payments and refunds settled on two dates, matched or not
InitLedger ==
    InitPipe(TxnFiles(PaytmRaw({"ACQUIRING", "REFUND"}, {Cell(1), Cell(2)},
                               {Cell(0)}, {1, 2}),
                      RazorpayRaw({"payment", "refund"}, {Cell(1), Cell(2)},
                                  {Cell(0)}, {1, 2}, {DateCell(1, 2)})),
             Exports({Num(1)}, {1}))

\* the normalizers: every label, amounts above, at and below the fee, amounts
\* and dates that do not parse, an order without a Total
InitNorm ==
    InitPipe(TxnFiles(PaytmRaw({"ACQUIRING", "REFUND", "CHARGEBACK"},
                               {Text, Cell(1), Cell(2)}, {Cell(0), Cell(1)}, {1}),
                      RazorpayRaw({"payment", "refund", "adjustment"},
                                  {Text, Cell(1), Cell(2)}, {Cell(0), Cell(1)}, {1},
                                  {DateCell(1, 2), BadDate})),
             {<<Order(1, Num(1), DateCell(1, 3)), Order(2, NaN, DateCell(1, 3)),
                Order(3, Num(1), BadDate)>>})

-----------------------------------------------------------------------------
(* One processing run: the try block of main. *)

\* app.py 138-140
ProcessDatasets ==
    /\ pc = "process"
    /\ ~PaytmFails(paytm_file) /\ ~ReadFails(razorpay_file)
    /\ ~ShopifyFails(shopify_files)
    /\ paytm_df' = process_paytm_data(paytm_file)
    /\ razorpay_df' = process_razorpay_data(razorpay_file)
    /\ shopify_df' = process_shopify_data(shopify_files)
    /\ pc' = "match"
    /\ UNCHANGED <<paytm_file, razorpay_file, shopify_files, paytm_used_names,
                   razorpay_used_names, unused_shopify_df, final_df, run,
                   first_out>>
    /\ UNCHANGED appVars

\* a claim set kept from the call before
MatchBeginKeep ==
    /\ pc = "match"
    /\ pc' = "apply_paytm"
    /\ UNCHANGED <<paytm_file, razorpay_file, shopify_files, paytm_df,
                   razorpay_df, shopify_df, paytm_used_names,
                   razorpay_used_names, unused_shopify_df, final_df, run,
                   first_out>>
    /\ UNCHANGED appVars

\* match_orders is entered: its claim sets are new and empty
MatchBegin ==
    /\ pc = "match"
    /\ paytm_used_names' = {}
    /\ razorpay_used_names' = {}
    /\ pc' = "apply_paytm"
    /\ UNCHANGED <<paytm_file, razorpay_file, shopify_files, paytm_df,
                   razorpay_df, shopify_df, unused_shopify_df, final_df, run,
                   first_out>>
    /\ UNCHANGED appVars

\* paytm_df = paytm_df.apply(match_order_id_and_party_info, axis=1)
ApplyPaytm ==
    /\ pc = "apply_paytm"
    /\ LET m == ApplyRows(paytm_df, paytm_used_names, razorpay_used_names,
                          shopify_df)
       IN  /\ paytm_df' = m.df
           /\ paytm_used_names' = m.pu
           /\ razorpay_used_names' = m.ru
    /\ pc' = "apply_razorpay"
    /\ UNCHANGED <<paytm_file, razorpay_file, shopify_files, razorpay_df,
                   shopify_df, unused_shopify_df, final_df, run, first_out>>
    /\ UNCHANGED appVars

\* razorpay_df = razorpay_df.apply(match_order_id_and_party_info, axis=1)
ApplyRazorpay ==
    /\ pc = "apply_razorpay"
    /\ LET m == ApplyRows(razorpay_df, paytm_used_names, razorpay_used_names,
                          shopify_df)
       IN  /\ razorpay_df' = m.df
           /\ paytm_used_names' = m.pu
           /\ razorpay_used_names' = m.ru
    /\ pc' = "unused"
    /\ UNCHANGED <<paytm_file, razorpay_file, shopify_files, paytm_df,
                   shopify_df, unused_shopify_df, final_df, run, first_out>>
    /\ UNCHANGED appVars

\* unused_shopify_df and the return of match_orders
FindUnused ==
    /\ pc = "unused"
    /\ unused_shopify_df' =
           UnusedEntries(shopify_df, paytm_used_names, razorpay_used_names)
    /\ pc' = "combine"
    /\ UNCHANGED <<paytm_file, razorpay_file, shopify_files, paytm_df,
                   razorpay_df, shopify_df, paytm_used_names,
                   razorpay_used_names, final_df, run, first_out>>
    /\ UNCHANGED appVars

\* final_df = combine_and_format_data(processed_paytm_df, processed_razorpay_df)
Combine ==
    /\ pc = "combine"
    /\ final_df' = combine_and_format_data(paytm_df, razorpay_df)
    /\ pc' = "done"
    /\ UNCHANGED <<paytm_file, razorpay_file, shopify_files, paytm_df,
                   razorpay_df, shopify_df, paytm_used_names,
                   razorpay_used_names, unused_shopify_df, run, first_out>>
    /\ UNCHANGED appVars

\* Process Data is clicked again with the same files uploaded
ProcessAgain ==
    /\ pc = "done"
    /\ run = 1
    /\ first_out' = Some([ledger |-> final_df, unused |-> unused_shopify_df])
    /\ run' = 2
    /\ pc' = "process"
    /\ UNCHANGED <<paytm_file, razorpay_file, shopify_files, paytm_df,
                   razorpay_df, shopify_df, paytm_used_names,
                   razorpay_used_names, unused_shopify_df, final_df>>
    /\ UNCHANGED appVars

Next ==
    \/ ProcessDatasets
    \/ MatchBegin
    \/ ApplyPaytm
    \/ ApplyRazorpay
    \/ FindUnused
    \/ Combine

Spec == Init /\ [][Next]_vars

SpecNorm == InitNorm /\ [][Next]_vars

NextAgain == Next \/ ProcessAgain

SpecLedger == InitLedger /\ [][NextAgain]_vars

-----------------------------------------------------------------------------
(* The session: one action is one run of the script's main. *)

\* what the file uploaders can hold when the script runs
PaytmUploads ==
    {NoFile, BadCsv,
     CsvFile(<<[transaction_date |-> BadDate, settled_date |-> 1,
                transaction_type |-> "ACQUIRING", amount |-> Cell(1),
                commission |-> Cell(0), gst |-> Cell(1)]>>)}
    \cup {CsvFile(<<r>>) : r \in PaytmRaw({"ACQUIRING", "REFUND"}, {Cell(1)},
                                          {Cell(0)}, {1})}

RazorpayUploads ==
    {NoFile, CsvFile(<<>>)}
    \cup {CsvFile(<<r>>) : r \in RazorpayRaw({"payment"}, {Cell(1)}, {Cell(0)},
                                             {1}, {DateCell(1, 2)})}

ShopifyUploads ==
    {<<>>,
     <<[name |-> "notes.csv", has_total |-> TRUE, rows |-> <<>>]>>,
     <<OrdersFile(<<Order(1, Num(1), DateCell(1, 3))>>)>>,
     <<OrdersFile(<<Order(2, Num(1), DateCell(1, 3)),
                    Order(1, Num(1), DateCell(2, 3))>>)>>}

\* the condition of the if at app.py 134
MustProcess(clicked) ==
    \/ clicked
    \/ /\ ~session_state.files_processed
       /\ paytm_file'.present /\ razorpay_file'.present
       /\ shopify_files' # <<>>

\* an exception is raised inside the try block
RunFails(pf, rf, sf) == PaytmFails(pf) \/ ReadFails(rf) \/ ShopifyFails(sf)

\* the outputs of the try block when nothing is raised
RunOutputs(pf, rf, sf) ==
    LET m == match_orders(process_paytm_data(pf), process_razorpay_data(rf),
                          process_shopify_data(sf))
    IN  [ledger |-> combine_and_format_data(m.paytm_df, m.razorpay_df),
         unused |-> m.unused_shopify_df]

\* the block "Display results if data is processed"
Display(ss) ==
    IF ss.files_processed /\ ss.processed_data # None
    THEN Some([ledger |-> ss.processed_data[1], unused |-> ss.unused_data[1]])
    ELSE None

Upload ==
    /\ paytm_file' \in PaytmUploads
    /\ razorpay_file' \in RazorpayUploads
    /\ shopify_files' \in ShopifyUploads
    /\ UNCHANGED <<paytm_df, razorpay_df, shopify_df, paytm_used_names,
                   razorpay_used_names, unused_shopify_df, final_df, pc, run,
                   first_out>>

\* the except branch forgets to clear files_processed
OnExceptionKeep(ss) == ss

\* except Exception: files_processed = False
OnException(ss) == [ss EXCEPT !.files_processed = FALSE]

\* main runs and the try block raises: the error is shown and main returns
MainFails ==
    /\ Upload
    /\ last_run.n < MaxRuns
    /\ \E clicked \in BOOLEAN : MustProcess(clicked)
    /\ RunFails(paytm_file', razorpay_file', shopify_files')
    /\ session_state' = OnException(session_state)
    /\ shown' = [error |-> TRUE, results |-> None]
    /\ last_run' = [n |-> last_run.n + 1, ok |-> FALSE, out |-> None]

\* main runs and the try block completes: the outputs are stored and displayed
MainProcesses ==
    /\ Upload
    /\ last_run.n < MaxRuns
    /\ \E clicked \in BOOLEAN : MustProcess(clicked)
    /\ ~RunFails(paytm_file', razorpay_file', shopify_files')
    /\ LET out == RunOutputs(paytm_file', razorpay_file', shopify_files')
       IN  /\ session_state' = [processed_data |-> Some(out.ledger),
                                unused_data |-> Some(out.unused),
                                files_processed |-> TRUE]
           /\ shown' = [error |-> FALSE, results |-> Display(session_state')]
           /\ last_run' = [n |-> last_run.n + 1, ok |-> TRUE, out |-> Some(out)]

\* main runs without processing: only the display block
MainDisplays ==
    /\ Upload
    /\ ~MustProcess(FALSE)
    /\ shown' = [error |-> FALSE, results |-> Display(session_state)]
    /\ UNCHANGED <<session_state, last_run>>

InitApp ==
    /\ paytm_file = NoFile
    /\ razorpay_file = NoFile
    /\ shopify_files = <<>>
    /\ paytm_df = <<>>
    /\ razorpay_df = <<>>
    /\ shopify_df = <<>>
    /\ paytm_used_names = {}
    /\ razorpay_used_names = {}
    /\ unused_shopify_df = <<>>
    /\ final_df = <<>>
    /\ pc = "session"
    /\ run = 1
    /\ first_out = None
    /\ session_state = [processed_data |-> None, unused_data |-> None,
                        files_processed |-> FALSE]
    /\ shown = [error |-> FALSE, results |-> None]
    /\ last_run = [n |-> 0, ok |-> FALSE, out |-> None]

NextApp ==
    \/ MainFails
    \/ MainProcesses
    \/ MainDisplays

SpecApp == InitApp /\ [][NextApp]_vars

-----------------------------------------------------------------------------
(* Vocabulary of the properties. *)

Range(s) == {s[i] : i \in 1..Len(s)}

\* match_orders has returned
MatchDone == pc \in {"combine", "done"}

\* the transactions in the order match_orders takes them
AllTxns == paytm_df \o razorpay_df

\* order c has transaction t's amount and calendar date
SameAmountAndDay(t, c) ==
    /\ ~t.OrderAmt.nan /\ ~c.Total.nan /\ t.OrderAmt.v = c.Total.v
    /\ ~t.TDate.nat /\ ~c.PaidAt.nat /\ t.TDate.day = c.PaidAt.day

Matchable(t) == t.Type \in {"payment", "refund"}

\* the order ids some transaction references
Referenced == {t.OrderID[1] : t \in {u \in Range(AllTxns) : u.OrderID # None}}

\* the ids claimed, when transaction k is taken, in the claim set used for it:
\* those of the earlier transactions of its kind
ClaimedBefore(k) ==
    {AllTxns[j].OrderID[1] :
        j \in {i \in 1..(k - 1) : /\ AllTxns[i].Type = AllTxns[k].Type
                                  /\ AllTxns[i].OrderID # None}}

\* the claim set used for a transaction of this kind, after the run
ClaimSetOf(type) ==
    IF type = "payment" THEN paytm_used_names ELSE razorpay_used_names

\* the pool orders transaction k can still take
Available(k) ==
    {c \in Range(shopify_df) :
        SameAmountAndDay(AllTxns[k], c) /\ c.Name \notin ClaimedBefore(k)}

Unset(t) ==
    t.OrderID = None /\ t.Party1 = None /\ t.Party2 = None /\ t.Party3 = None

\* transaction k ends as the matching rule says
RuleHolds(k) ==
    IF Available(k) # {}
    THEN \E c \in Available(k) :
            /\ AllTxns[k].OrderID = Some(c.Name)
            /\ AllTxns[k].Party1 = Some(c.BillingName)
            /\ AllTxns[k].Party2 = Some(c.BillingStreet)
            /\ AllTxns[k].Party3 = Some(c.BillingCompany)
            /\ c.Name \in ClaimSetOf(AllTxns[k].Type)
    ELSE Unset(AllTxns[k])

-----------------------------------------------------------------------------
(* C1 *)

\* C1 as stated: after match_orders, within each source no two transactions
\* carry the same order id.
C1_ExclusiveWithinSource ==
    MatchDone =>
        \A df \in {paytm_df, razorpay_df} :
            \A i, j \in 1..Len(df) :
                (i # j /\ df[i].OrderID # None) => df[i].OrderID # df[j].OrderID

-----------------------------------------------------------------------------
(* C2 *)

\* C2: the residual pool is the pool without the orders of either claim set;
\* the claimed ids are exactly the ids some transaction references, so no
\* transaction references a residual order and every other pool order is
\* referenced.
C2_ResidualCorrect ==
    MatchDone =>
        /\ paytm_used_names \cup razorpay_used_names = Referenced
        /\ unused_shopify_df =
               SelectSeq(shopify_df, LAMBDA c : c.Name \notin Referenced)
        /\ \A c \in Range(unused_shopify_df) :
               \A t \in Range(AllTxns) : t.OrderID # Some(c.Name)
        /\ \A c \in Range(shopify_df) :
               c \notin Range(unused_shopify_df) =>
                   \E t \in Range(AllTxns) : t.OrderID = Some(c.Name)

\* a refund took one order of the pool and another order is left over
C2_Witness ==
    /\ MatchDone
    /\ razorpay_used_names # {}
    /\ unused_shopify_df # <<>>
    /\ Len(unused_shopify_df) < Len(shopify_df)

-----------------------------------------------------------------------------
(* C3 *)

\* C3 as stated: when one pool order alone has the amount and day of a PayTm
\* transaction and of a Razorpay transaction, the first such transaction of
\* each source ends with that order's id, whatever the other source claimed.
C3_PrivatePerSource ==
    MatchDone =>
        \A c \in Range(shopify_df) :
            \A i \in 1..Len(paytm_df), j \in 1..Len(razorpay_df) :
                LET fits(t) == Matchable(t) /\ SameAmountAndDay(t, c)
                    first(df, k) == fits(df[k]) /\ \A h \in 1..(k - 1) : ~fits(df[h])
                    alone == \A d \in Range(shopify_df) :
                                 SameAmountAndDay(paytm_df[i], d) => d = c
                IN  (alone /\ first(paytm_df, i) /\ first(razorpay_df, j)) =>
                        /\ paytm_df[i].OrderID = Some(c.Name)
                        /\ razorpay_df[j].OrderID = Some(c.Name)

-----------------------------------------------------------------------------
(* C4 *)

\* C4 as stated: every transaction, whatever its kind, ends as the matching
\* rule says.
C4_RuleForEveryKind == MatchDone => \A k \in 1..Len(AllTxns) : RuleHolds(k)

\* C4 amended: a payment or a refund ends as the matching rule says, the claim
\* set used being the one of its kind; a transaction of any other kind stays
\* unset.
C4_MatchingRule ==
    MatchDone =>
        \A k \in 1..Len(AllTxns) :
            IF Matchable(AllTxns[k]) THEN RuleHolds(k) ELSE Unset(AllTxns[k])

\* one transaction was matched although an order of another day is in the
\* pool, and one of another kind with an order to take stayed unset
C4_Witness ==
    /\ MatchDone
    /\ \E k \in 1..Len(AllTxns) :
          /\ Matchable(AllTxns[k]) /\ AllTxns[k].OrderID # None
          /\ \E c \in Range(shopify_df) : ~SameAmountAndDay(AllTxns[k], c)
    /\ \E k \in 1..Len(AllTxns) :
          ~Matchable(AllTxns[k]) /\ Available(k) # {}

-----------------------------------------------------------------------------
(* C5 *)

-----------------------------------------------------------------------------
(* C6 *)

\* every row of the two frames and of the ledger
MoneyRows == Range(paytm_df) \cup Range(razorpay_df) \cup Range(final_df)

\* C6 as stated: in every row exactly one of Debit and Credit is nonzero and
\* the other is 0; Credit is amount - fee for a payment, Debit for a refund.
C6_ExactlyOneNonzero ==
    \A r \in MoneyRows :
        /\ \/ IsZero(r.Debit) /\ ~IsZero(r.Credit)
           \/ IsZero(r.Credit) /\ ~IsZero(r.Debit)
        /\ r.Type = "payment" => r.Credit = NumSub(r.OrderAmt, r.Fee)
        /\ r.Type = "refund" => r.Debit = NumSub(r.OrderAmt, r.Fee)

\* C6 amended: in every row at least one of Debit and Credit is exactly 0;
\* Credit is amount - fee and Debit 0 for a payment, Debit is amount - fee and
\* Credit 0 for a refund, and both are 0 for any other label.
C6_DebitCredit ==
    \A r \in MoneyRows :
        /\ IsZero(r.Debit) \/ IsZero(r.Credit)
        /\ r.Type = "payment" =>
               r.Credit = NumSub(r.OrderAmt, r.Fee) /\ r.Debit = Num(0)
        /\ r.Type = "refund" =>
               r.Debit = NumSub(r.OrderAmt, r.Fee) /\ r.Credit = Num(0)
        /\ r.Type \notin {"payment", "refund"} =>
               r.Debit = Num(0) /\ r.Credit = Num(0)

\* the ledger holds a payment whose amount equals its fee (Credit 0) and a
\* refund whose Debit is not 0
C6_Witness ==
    /\ pc = "done"
    /\ \E r \in Range(final_df) :
          r.Type = "payment" /\ NumEq(r.OrderAmt, r.Fee) /\ IsZero(r.Credit)
    /\ \E r \in Range(final_df) :
          r.Type = "refund" /\ ~r.Debit.nan /\ r.Debit.v # 0 /\ IsZero(r.Credit)

-----------------------------------------------------------------------------
(* C7 *)

\* a ledger row without its number
Unnumbered(r) ==
    [Date |-> r.Date, Platform |-> r.Platform, Type |-> r.Type,
     OrderAmt |-> r.OrderAmt, Fee |-> r.Fee, Debit |-> r.Debit,
     Credit |-> r.Credit, OrderID |-> r.OrderID, Party1 |-> r.Party1,
     Party2 |-> r.Party2, Party3 |-> r.Party3]

Count(s, x) == Cardinality({i \in 1..Len(s) : Unnumbered(s[i]) = x})

\* C7: the ledger has one row per row of the two files, each transaction as
\* often as the frames hold it, numbered 1, 2, ..., N in row order.
C7_SequenceDense ==
    pc = "done" =>
        /\ Len(final_df) = Len(paytm_file.rows) + Len(razorpay_file.rows)
        /\ \A i \in 1..Len(final_df) : final_df[i].SrNo = i
        /\ \A i \in 1..Len(AllTxns) :
               Count(final_df, Unnumbered(AllTxns[i]))
                   = Count(AllTxns, Unnumbered(AllTxns[i]))

\* a ledger of rows of both sources, the Razorpay row settled first
C7_Witness ==
    /\ pc = "done"
    /\ Len(final_df) >= 2
    /\ final_df[1].Platform = "Razorpay"
    /\ final_df[2].Platform = "PayTm"

-----------------------------------------------------------------------------
(* C8 *)

\* the composite key of a ledger row, an unset order id above every set one
KeyOf(r) ==
    <<r.Date, StrRank(r.Platform), StrRank(r.Type),
      IF r.OrderID = None THEN MaxPool + 1 ELSE r.OrderID[1]>>

\* lexicographic order of two keys
KeyLeq(a, b) ==
    \A i \in 1..4 : (\A j \in 1..(i - 1) : a[j] = b[j]) => a[i] <= b[i]

-----------------------------------------------------------------------------
(* C9 *)

\* C9: match_orders starts each call with both claim sets empty, and the
\* second run over the same files ends with the ledger and the residual pool
\* of the first.
C9_RunsAgree ==
    /\ pc = "apply_paytm" => paytm_used_names = {} /\ razorpay_used_names = {}
    /\ (run = 2 /\ pc = "done") =>
           first_out = Some([ledger |-> final_df, unused |-> unused_shopify_df])

\* the second run is over; both runs claimed an order and left one
C9_Witness ==
    /\ run = 2
    /\ pc = "done"
    /\ paytm_used_names # {}
    /\ unused_shopify_df # <<>>
    /\ first_out # None

-----------------------------------------------------------------------------
(* C10 *)

\* C10: a run that raises shows the error, leaves files_processed false and
\* displays no results; results are displayed only while files_processed is
\* true, and they are the ledger and the residual pool of the most recent
\* processing run, which succeeded.
C10_RunLevelFailure ==
    /\ shown.error => shown.results = None /\ ~session_state.files_processed
    /\ (last_run.n > 0 /\ ~last_run.ok) =>
           ~session_state.files_processed /\ shown.results = None
    /\ shown.results # None =>
           /\ session_state.files_processed
           /\ last_run.ok
           /\ shown.results = last_run.out

\* a run failed after an earlier run had stored its outputs: the error is
\* shown and the stored outputs are not
C10_Witness ==
    /\ last_run.n > 1
    /\ ~last_run.ok
    /\ shown.error
    /\ session_state.processed_data # None
    /\ shown.results = None

=============================================================================
